---- MODULE Spec2Model ----
(***************************************************************************)
(* Obesity-risk screening tool: the feature encoder (preprocess_input),    *)
(* the inference wrapper (predict_from_input), the risk tiers of the       *)
(* presentation layer and the history store (SQLite table `records`).      *)
(*                                                                         *)
(* Numbers are fixed-point: the number v is held as the integer v*Scale.   *)
(* A cell of a pandas table is a record [t, s, n]: a string, a number or   *)
(* NaN.  A table with one row is the sequence of its columns, in pandas'   *)
(* column order (the insertion order of the input mapping's keys).         *)
(***************************************************************************)
EXTENDS Integers, Sequences, FiniteSets, TLC

\* ---------------------------------------------------------------- bounds
\* Resolution of the fixed-point numbers (quarters: ties x.5 are representable).
Scale == 4
\* An observation differs from BaseObs in at most this many fields.
MaxEdits == 1
\* Largest whole value a numeric input takes.
MaxNumeric == 5
\* Largest probability, in percent, handed to the risk classification.
MaxPercent == 100
\* Most records the history store takes before submissions stop.
MaxRecords == 2
\* Most calls of preprocess_input made one after another.
MaxCalls == 3
\* Largest font size (in points) a cell is first tried with.
MaxFontSize == 9

\* ---------------------------------------------------------------- cells
Str(s) == [t |-> "str", s |-> s, n |-> 0]
Num(n) == [t |-> "num", s |-> "", n |-> n]
Whole(i) == Num(i * Scale)
NaN == [t |-> "nan", s |-> "", n |-> 0]
\* A key the input mapping does not carry.
Absent == [t |-> "absent", s |-> "", n |-> 0]

IsWhole(v) == v.t = "num" /\ v.n % Scale = 0

\* ------------------------------------------------- module-level constants
_COLUMN_RENAME ==
    [k \in {"Gender", "Age", "Height", "Weight", "family_history", "FAVC", "FCVC",
            "NCP", "CAEC", "SMOKE", "CH2O", "SCC", "FAF", "TUE", "CALC", "MTRANS",
            "Obesity"} |->
        CASE k = "Gender" -> "sexo"
          [] k = "Age" -> "idade"
          [] k = "Height" -> "altura"
          [] k = "Weight" -> "peso"
          [] k = "family_history" -> "hist_familiar_obes"
          [] k = "FAVC" -> "cons_altas_cal_freq"
          [] k = "FCVC" -> "cons_verduras"
          [] k = "NCP" -> "refeicoes_principais_dia"
          [] k = "CAEC" -> "lancha_entre_ref"
          [] k = "SMOKE" -> "fuma"
          [] k = "CH2O" -> "agua_dia"
          [] k = "SCC" -> "controle_calorias"
          [] k = "FAF" -> "ativ_fisica"
          [] k = "TUE" -> "uso_tecnologia"
          [] k = "CALC" -> "cons_alcool"
          [] k = "MTRANS" -> "transporte"
          [] k = "Obesity" -> "nivel_obesidade"]

_YES_NO_COLS == <<"hist_familiar_obes", "cons_altas_cal_freq", "fuma", "controle_calorias">>

_YES_NO_MAP == [k \in {"yes", "no"} |-> IF k = "yes" THEN 1 ELSE 0]

_SEXO_MAP == [k \in {"Female", "Male"} |-> IF k = "Male" THEN 1 ELSE 0]

_INT_ROUND_COLS ==
    <<"idade", "cons_verduras", "refeicoes_principais_dia", "ativ_fisica", "uso_tecnologia">>

_WATER_COL == "agua_dia"

_FLOAT_ROUND_COLS == <<"altura", "peso">>

\* Mutant of _FREQ_MAP: "Sometimes" counted as frequent.
FreqMapSometimesHigh ==
    [k \in {"no", "Sometimes", "Frequently", "Always"} |-> IF k = "no" THEN 0 ELSE 1]

_FREQ_MAP ==
    [k \in {"no", "Sometimes", "Frequently", "Always"} |->
        IF k \in {"Frequently", "Always"} THEN 1 ELSE 0]

_ATIV_MAP == [k \in 0..4 |-> IF k >= 2 THEN 1 ELSE 0]

\* Mutant of _TRANSP_MAP: "Bike" counted as motorised.
TranspMapBikeMotorised ==
    [k \in {"Automobile", "Motorbike", "Public_Transportation", "Bike", "Walking"} |->
        IF k = "Walking" THEN 0 ELSE 1]

_TRANSP_MAP ==
    [k \in {"Automobile", "Motorbike", "Public_Transportation", "Bike", "Walking"} |->
        IF k \in {"Bike", "Walking"} THEN 0 ELSE 1]

_FINAL_FEATURES ==
    <<"hist_familiar_obes", "cons_altas_cal_freq", "cons_verduras",
      "refeicoes_principais_dia", "lancha_entre_ref_bin", "fuma",
      "agua_dia", "controle_calorias", "ativ_fisica_bin",
      "uso_tecnologia", "cons_alcool_bin", "trasporte_bin">>

\* ------------------------------------------------------- pandas primitives
Range(seq) == {seq[i] : i \in DOMAIN seq}

\* pd.DataFrame([dict(input_dict)]): one column per key, in the keys' order.
DataFrame(input) == [i \in DOMAIN input |-> [name |-> input[i].k, val |-> input[i].v]]

\* df.rename(columns=mapper): every column named by a key of the mapper is
\* renamed, the others are kept; positions do not change.
Rename(df, mapper) ==
    [i \in DOMAIN df |->
        [df[i] EXCEPT !.name = IF @ \in DOMAIN mapper THEN mapper[@] ELSE @]]

\* `col in df`
HasCol(df, col) == \E i \in DOMAIN df : df[i].name = col

\* df[col] of a column that exists once.
Col(df, col) == (CHOOSE i \in DOMAIN df : df[i].name = col)

\* df[col] = value: replaces the column where it is, or appends a new column.
SetCol(df, col, v) ==
    IF HasCol(df, col)
    THEN [i \in DOMAIN df |-> IF df[i].name = col THEN [df[i] EXCEPT !.val = v] ELSE df[i]]
    ELSE Append(df, [name |-> col, val |-> v])

\* Series.map(table) for a table keyed by strings: a value that is no key
\* of the table (another string, a number, NaN) maps to NaN.
MapStr(table, v) ==
    IF v.t = "str" /\ v.s \in DOMAIN table THEN Whole(table[v.s]) ELSE NaN

\* Series.map(table) for a table keyed by integers: a float equal to a key
\* matches it.
MapInt(table, v) ==
    IF IsWhole(v) /\ (v.n \div Scale) \in DOMAIN table
    THEN Whole(table[v.n \div Scale]) ELSE NaN

\* Mutant of RoundHalfEven: ties go up.
RoundHalfUp(n, unit) ==
    LET q == n \div unit
        r == n % unit
    IN  IF 2 * r < unit THEN q * unit ELSE (q + 1) * unit

\* numpy's round to `decimals` places, ties to the even neighbour, of the
\* fixed-point n; the result is fixed-point as well.  unit is the weight of
\* the last kept digit: Scale for decimals = 0.
RoundHalfEven(n, unit) ==
    LET q == n \div unit
        r == n % unit
    IN  IF 2 * r < unit THEN q * unit
        ELSE IF 2 * r > unit THEN (q + 1) * unit
        ELSE IF q % 2 = 0 THEN q * unit ELSE (q + 1) * unit

\* Series.round(0) / Series.round(): numbers are rounded, NaN stays NaN.
Round0(v) == IF v.t = "num" THEN Num(RoundHalfEven(v.n, Scale)) ELSE v

\* Series.round(2): a fixed-point number coarser than 1/100 is unchanged.
Round2(v) == v

\* ------------------------------------------------------ the encoder steps
\* A step's outcome: the table, or the exception that left the step.
Ok(df) == [err |-> "none", df |-> df, missing |-> <<>>]
Raised(kind, names) == [err |-> kind, df |-> <<>>, missing |-> names]

YesNo(v) == MapStr(_YES_NO_MAP, v)
Sexo(v) == MapStr(_SEXO_MAP, v)
\* Mutant of FreqBin: only "Always" counts as frequent.
FreqBinAlwaysOnly(v) ==
    IF v.t = "str" /\ v.s \in DOMAIN _FREQ_MAP
    THEN Whole(IF v.s = "Always" THEN 1 ELSE 0) ELSE NaN
FreqBin(v) == MapStr(_FREQ_MAP, v)
AtivBin(v) == MapInt(_ATIV_MAP, v)
TranspBin(v) == MapStr(_TRANSP_MAP, v)

\* for col in _YES_NO_COLS: if col in df: df[col] = df[col].map(_YES_NO_MAP)
_map_yes_no(df) ==
    [i \in DOMAIN df |->
        IF df[i].name \in Range(_YES_NO_COLS) THEN [df[i] EXCEPT !.val = YesNo(@)] ELSE df[i]]

_map_sexo(df) ==
    [i \in DOMAIN df |->
        IF df[i].name = "sexo" THEN [df[i] EXCEPT !.val = Sexo(@)] ELSE df[i]]

\* Series.round of a column of strings (dtype object) raises TypeError.
RoundFails(df) ==
    \E i \in DOMAIN df :
        /\ df[i].name \in Range(_INT_ROUND_COLS) \cup {_WATER_COL} \cup Range(_FLOAT_ROUND_COLS)
        /\ df[i].val.t = "str"

\* .round().astype(int) of a column holding NaN raises (no integer NaN).
WaterCastFails(df) == \E i \in DOMAIN df : df[i].name = _WATER_COL /\ df[i].val.t = "nan"

_round_numeric_columns(df) ==
    IF RoundFails(df) THEN Raised("TypeError", <<>>)
    ELSE IF WaterCastFails(df) THEN Raised("ValueError", <<>>)
    ELSE Ok([i \in DOMAIN df |->
                CASE df[i].name \in Range(_INT_ROUND_COLS) -> [df[i] EXCEPT !.val = Round0(@)]
                  [] df[i].name = _WATER_COL -> [df[i] EXCEPT !.val = Round0(@)]
                  [] df[i].name \in Range(_FLOAT_ROUND_COLS) -> [df[i] EXCEPT !.val = Round2(@)]
                  [] OTHER -> df[i]])

\* The cell of column src, Absent when the table has no such column.
CellOf(df, src) == IF HasCol(df, src) THEN df[Col(df, src)].val ELSE Absent

\* if src in df: df[dst] = bin   (bin: the mapped cell of src)
Derive(df, src, dst, bin) == IF HasCol(df, src) THEN SetCol(df, dst, bin) ELSE df

\* Mutant of _map_custom_bins: a bin whose source column is missing is
\* created all the same, holding NaN.
MapCustomBinsDefaulting(df) ==
    LET d1 == SetCol(df, "lancha_entre_ref_bin", FreqBin(CellOf(df, "lancha_entre_ref")))
        d2 == SetCol(d1, "cons_alcool_bin", FreqBin(CellOf(d1, "cons_alcool")))
        d3 == SetCol(d2, "ativ_fisica_bin", AtivBin(CellOf(d2, "ativ_fisica")))
    IN  SetCol(d3, "trasporte_bin", TranspBin(CellOf(d3, "transporte")))

_map_custom_bins(df) ==
    LET d1 == Derive(df, "lancha_entre_ref", "lancha_entre_ref_bin",
                     FreqBin(CellOf(df, "lancha_entre_ref")))
        d2 == Derive(d1, "cons_alcool", "cons_alcool_bin", FreqBin(CellOf(d1, "cons_alcool")))
        d3 == Derive(d2, "ativ_fisica", "ativ_fisica_bin", AtivBin(CellOf(d2, "ativ_fisica")))
    IN  Derive(d3, "transporte", "trasporte_bin", TranspBin(CellOf(d3, "transporte")))

\* Mutant of Select: keeps the requested columns in the table's own order.
SelectInTableOrder(df, names) ==
    LET lacks(c) == ~HasCol(df, c)
        wanted(c) == c.name \in Range(names)
    IN  IF SelectSeq(names, lacks) # <<>> THEN Raised("KeyError", SelectSeq(names, lacks))
        ELSE Ok(SelectSeq(df, wanted))

\* Mutant of Select: takes the table's leading columns, as many as requested.
SelectLeading(df, names) ==
    LET lacks(c) == ~HasCol(df, c)
    IN  IF SelectSeq(names, lacks) # <<>> THEN Raised("KeyError", SelectSeq(names, lacks))
        ELSE Ok(SubSeq(df, 1, Len(names)))

\* df[names]: KeyError naming every requested column the table lacks,
\* otherwise the requested columns in the requested order.
Select(df, names) ==
    LET lacks(c) == ~HasCol(df, c)
        missing == SelectSeq(names, lacks)
    IN  IF missing # <<>> THEN Raised("KeyError", missing)
        ELSE Ok([i \in DOMAIN names |-> df[Col(df, names[i])]])

\* Mutant of preprocess_input: the bins are derived before the rounding.
PreprocessBinsBeforeRounding(input_dict) ==
    LET df0 == Rename(DataFrame(input_dict), _COLUMN_RENAME)
        df1 == _map_custom_bins(_map_sexo(_map_yes_no(df0)))
        r2 == _round_numeric_columns(df1)
    IN  IF r2.err # "none" THEN r2
        ELSE Select(r2.df, _FINAL_FEATURES)

preprocess_input(input_dict) ==
    LET df0 == Rename(DataFrame(input_dict), _COLUMN_RENAME)
        df1 == _map_sexo(_map_yes_no(df0))
        r2 == _round_numeric_columns(df1)
    IN  IF r2.err # "none" THEN r2
        ELSE Select(_map_custom_bins(r2.df), _FINAL_FEATURES)

\* The module-level tables as the import of production_pipeline leaves them.
ModuleTables ==
    [_COLUMN_RENAME |-> _COLUMN_RENAME, _YES_NO_MAP |-> _YES_NO_MAP, _SEXO_MAP |-> _SEXO_MAP,
     _FREQ_MAP |-> _FREQ_MAP, _ATIV_MAP |-> _ATIV_MAP, _TRANSP_MAP |-> _TRANSP_MAP,
     _FINAL_FEATURES |-> _FINAL_FEATURES]

\* Mutant of PreprocessCall: the table is built on the caller's mapping
\* itself, so the yes/no codes are written into it.
PreprocessCallOnCallersDict(input_dict, tabs) ==
    [input |-> [i \in DOMAIN input_dict |->
                    IF input_dict[i].k \in {"family_history", "FAVC", "SMOKE", "SCC"}
                    THEN [input_dict[i] EXCEPT !.v = YesNo(@)] ELSE input_dict[i]],
     tables |-> tabs,
     ret |-> preprocess_input(input_dict)]

\* Mutant of PreprocessCall: the keys of the caller's mapping are renamed.
PreprocessCallRenamingKeys(input_dict, tabs) ==
    [input |-> [i \in DOMAIN input_dict |->
                    [input_dict[i] EXCEPT !.k = IF @ \in DOMAIN _COLUMN_RENAME
                                                THEN _COLUMN_RENAME[@] ELSE @]],
     tables |-> tabs,
     ret |-> preprocess_input(input_dict)]

\* One call of preprocess_input as its caller sees it: the argument object
\* and the module tables after the call, and the outcome.  dict(input_dict)
\* is a new mapping and rename returns a new table, so the in-place writes
\* of the helper steps go to that table; the module tables are only read.
PreprocessCall(input_dict, tabs) ==
    [input |-> input_dict, tables |-> tabs, ret |-> preprocess_input(input_dict)]

\* The row of a table, as the sequence of its cells.
Row(df) == [i \in DOMAIN df |-> df[i].val]

\* ------------------------------------------------------------ observations
\* The keys an input mapping may carry, in the order the Prever form builds
\* its `inputs` (Nome first), then the survey fields outside the form.
RequiredKeys ==
    <<"family_history", "FAVC", "FCVC", "NCP", "CAEC", "SMOKE", "CH2O", "SCC",
      "FAF", "TUE", "CALC", "MTRANS">>

ExtraKeys == <<"Gender", "Age", "Height", "Weight", "Obesity">>

AllKeys == <<"Nome">> \o RequiredKeys \o ExtraKeys

Reverse(seq) == [i \in DOMAIN seq |-> seq[Len(seq) + 1 - i]]

Rotate(seq, d) == [i \in DOMAIN seq |-> seq[((i - 1 + d) % Len(seq)) + 1]]

\* The key orders tried: the form's, its reverse, and a rotation of each.
KeyOrders == {AllKeys, Reverse(AllKeys), Rotate(AllKeys, 7), Rotate(Reverse(AllKeys), 4)}

NumericVals == {Num(n) : n \in 0..(MaxNumeric * Scale)}

\* The values a key may carry (Absent: the mapping has no such key).
FieldDomain(k) ==
    CASE k \in {"family_history", "FAVC", "SMOKE", "SCC"} ->
            {Str("yes"), Str("no"), Str("Sim"), Absent}
      [] k \in {"CAEC", "CALC"} ->
            {Str("no"), Str("Sometimes"), Str("Frequently"), Str("Always"),
             Str("sometimes"), Str("never"), Absent}
      [] k = "MTRANS" ->
            {Str("Automobile"), Str("Motorbike"), Str("Public_Transportation"),
             Str("Bike"), Str("Walking"), Str("Car"), Absent}
      [] k \in {"FCVC", "NCP", "CH2O", "FAF", "TUE"} -> NumericVals \cup {Absent}
      [] k = "Nome" -> {Str("Ana"), Str("yes"), Absent}
      [] k = "Gender" -> {Str("Female"), Str("Male"), Absent}
      [] k = "Age" -> {Whole(1), Num(Scale + 1), Absent}
      [] k \in {"Height", "Weight"} -> {Whole(1), Absent}
      [] k = "Obesity" -> {Str("Obesity_Type_I"), Absent}

\* The observation of the end-to-end scenario, as a mapping.
BaseObs ==
    [k \in Range(AllKeys) |->
        CASE k = "family_history" -> Str("yes")
          [] k = "FAVC" -> Str("no")
          [] k = "FCVC" -> Whole(3)
          [] k = "NCP" -> Whole(3)
          [] k = "CAEC" -> Str("Sometimes")
          [] k = "SMOKE" -> Str("no")
          [] k = "CH2O" -> Whole(2)
          [] k = "SCC" -> Str("no")
          [] k = "FAF" -> Whole(1)
          [] k = "TUE" -> Whole(1)
          [] k = "CALC" -> Str("Sometimes")
          [] k = "MTRANS" -> Str("Walking")
          [] OTHER -> Absent]

\* The mappings that differ from BaseObs in at most n keys.
RECURSIVE EditsUpTo(_)
EditsUpTo(n) ==
    IF n = 0 THEN {BaseObs}
    ELSE LET prev == EditsUpTo(n - 1)
         IN  prev \cup UNION {{[m EXCEPT ![k] = v] : v \in FieldDomain(k), m \in prev} :
                                k \in Range(AllKeys)}

Mappings(maxEdits) == EditsUpTo(maxEdits)

\* A mapping as Python holds it: its (key, value) pairs in insertion order.
AsDict(m, order) ==
    LET present(k) == m[k] # Absent
        keys == SelectSeq(order, present)
    IN  [i \in DOMAIN keys |-> [k |-> keys[i], v |-> m[keys[i]]]]

RawObservations(orders) == {AsDict(m, o) : m \in Mappings(MaxEdits), o \in orders}

\* input_dict.get(k), Absent for a missing key.
Get(input, k) ==
    IF \E i \in DOMAIN input : input[i].k = k
    THEN input[CHOOSE i \in DOMAIN input : input[i].k = k].v
    ELSE Absent

\* The mapping an ordered dict stands for.
AsMapping(input) == [k \in Range(AllKeys) |-> Get(input, k)]

\* ---------------------------------------------------- the inference wrapper
\* Probabilities are fixed-point with five decimals: p is held as p*100000,
\* which is also 100*p percent in thousandths of a percent.
ProbVals ==
    {0, 12345, 29994, 29995, 29996, 29999, 30000, 49999, 50000, 59995, 59999, 60000,
     99999, 100000}

\* The classifiers: with or without predict_proba, accepting NaN cells
\* (gradient-boosted trees) or raising ValueError on them.
Classifiers == [hasProba : BOOLEAN, nanOk : BOOLEAN]

\* What the classifier answers for one row: its label and its class-1
\* probability.
Answers == [label : {0, 1}, p : ProbVals]

HasNaN(x) == \E i \in DOMAIN x : x[i].t = "nan"

\* model.predict_proba(df)[0]: the pair (p(class 0), p(class 1)).
PredictProba(ans) == <<100000 - ans.p, ans.p>>

MsgPositive == "Ha indicios de que pode ter obesidade."
MsgNegative == "Baixa probabilidade de obesidade."

\* f"{prob:.2%}": 100*prob with two decimals, as hundredths of a percent.
\* The nearest hundredth; at a decimal tie the binary value of the float
\* decides, so either neighbour may come out (up says which).
FormatPercent(prob, up) ==
    LET q == prob \div 10
        r == prob % 10
    IN  IF r < 5 THEN q ELSE IF r > 5 THEN q + 1 ELSE IF up THEN q + 1 ELSE q

\* The text "Probabilidade estimada: dd.dd%".
ProbMsg(hundredths) == [prefix |-> "Probabilidade estimada: ", pct |-> hundredths]

NoProbMsg == [prefix |-> "", pct |-> 0]

PredictResult(err, missing, x, clfCalled, keys, msg, probMsg) ==
    [called |-> TRUE, err |-> err, missing |-> missing, clfInput |-> x,
     clfCalled |-> clfCalled, keys |-> keys, mensagem |-> msg, probabilidade |-> probMsg]

\* Mutant of predict_from_input: the first element of the pair (class 0) is
\* taken as the probability.
PredictFromInputClass0(model, ans, input_dict, up) ==
    LET enc == preprocess_input(input_dict)
        x == Row(enc.df)
        msg == IF ans.label = 1 THEN MsgPositive ELSE MsgNegative
    IN  IF enc.err # "none"
        THEN PredictResult(enc.err, enc.missing, <<>>, FALSE, {}, "", NoProbMsg)
        ELSE IF HasNaN(x) /\ ~model.nanOk
        THEN PredictResult("ClassifierError", <<>>, x, TRUE, {}, "", NoProbMsg)
        ELSE IF model.hasProba
        THEN PredictResult("none", <<>>, x, TRUE, {"mensagem", "probabilidade"}, msg,
                           ProbMsg(FormatPercent(PredictProba(ans)[1], up)))
        ELSE PredictResult("none", <<>>, x, TRUE, {"mensagem"}, msg, NoProbMsg)

\* Mutant of predict_from_input: the message follows the probability.
PredictFromInputMsgByProb(model, ans, input_dict, up) ==
    LET enc == preprocess_input(input_dict)
        x == Row(enc.df)
        msg == IF ans.p >= 50000 THEN MsgPositive ELSE MsgNegative
    IN  IF enc.err # "none"
        THEN PredictResult(enc.err, enc.missing, <<>>, FALSE, {}, "", NoProbMsg)
        ELSE IF HasNaN(x) /\ ~model.nanOk
        THEN PredictResult("ClassifierError", <<>>, x, TRUE, {}, "", NoProbMsg)
        ELSE IF model.hasProba
        THEN PredictResult("none", <<>>, x, TRUE, {"mensagem", "probabilidade"}, msg,
                           ProbMsg(FormatPercent(PredictProba(ans)[2], up)))
        ELSE PredictResult("none", <<>>, x, TRUE, {"mensagem"}, msg, NoProbMsg)

\* predict_from_input(model, input_dict), where the classifier answers ans.
predict_from_input(model, ans, input_dict, up) ==
    LET enc == preprocess_input(input_dict)
        x == Row(enc.df)
        msg == IF ans.label = 1 THEN MsgPositive ELSE MsgNegative
    IN  IF enc.err # "none"
        THEN PredictResult(enc.err, enc.missing, <<>>, FALSE, {}, "", NoProbMsg)
        ELSE IF HasNaN(x) /\ ~model.nanOk
        THEN PredictResult("ClassifierError", <<>>, x, TRUE, {}, "", NoProbMsg)
        ELSE IF model.hasProba
        THEN PredictResult("none", <<>>, x, TRUE, {"mensagem", "probabilidade"}, msg,
                           ProbMsg(FormatPercent(PredictProba(ans)[2], up)))
        ELSE PredictResult("none", <<>>, x, TRUE, {"mensagem"}, msg, NoProbMsg)

\* The observations handed to the wrapper: those whose numbers are whole,
\* in the form's key order.
WholeNumbers(m) == \A k \in Range(AllKeys) : m[k].t = "num" => IsWhole(m[k])

\* The mappings of EditsUpTo(n) that satisfy WholeNumbers, built edit by edit.
RECURSIVE WholeEditsUpTo(_)
WholeEditsUpTo(n) ==
    IF n = 0 THEN {m \in {BaseObs} : WholeNumbers(m)}
    ELSE LET prev == WholeEditsUpTo(n - 1)
         IN  prev \cup UNION {{[m EXCEPT ![k] = v] :
                                    v \in {w \in FieldDomain(k) : w.t = "num" => IsWhole(w)},
                                    m \in prev} :
                                k \in Range(AllKeys)}

PredictObservations(order) ==
    {AsDict(m, order) : m \in WholeEditsUpTo(MaxEdits)}

\* ------------------------------------------------- the presentation layer
\* x percent, in thousandths of a percent.
Percent(x) == x * 1000

\* Mutant of Risco: the boundaries belong to the lower tier.
RiscoBoundaryLow(prob) ==
    IF prob > Percent(60) THEN "Alto"
    ELSE IF prob > Percent(30) THEN "Moderado"
    ELSE "Baixo"

\* The risk tier of the Prever page for the probability prob (in percent).
Risco(prob) ==
    IF prob >= Percent(60) THEN "Alto"
    ELSE IF prob >= Percent(30) THEN "Moderado"
    ELSE "Baixo"

\* previsao_binaria of the Prever page.
PrevisaoBinaria(prob) == IF prob >= Percent(50) THEN "Sim" ELSE "Nao"

\* Mutant of render_risk_chart: the comparisons include the boundary.
RenderRiskChartBoundaryLow(prob) ==
    IF prob <= Percent(30) THEN "#2ECC71"
    ELSE IF prob <= Percent(60) THEN "#F1C40F"
    ELSE "#E74C3C"

\* render_risk_chart(prob): the colour given to the bar.
render_risk_chart(prob) ==
    IF prob < Percent(30) THEN "#2ECC71"
    ELSE IF prob < Percent(60) THEN "#F1C40F"
    ELSE "#E74C3C"

\* generate_pdf: rfill, the fill colour of the probability badge.
rfill(probabilidade) ==
    IF probabilidade >= Percent(60) THEN <<220, 53, 69>>
    ELSE IF probabilidade >= Percent(30) THEN <<255, 159, 67>>
    ELSE <<76, 175, 80>>

\* The probabilities tried: every half percent up to MaxPercent, and the
\* thousandths next to each.
TierProbs == {q \in {k * 500 + d : k \in 0..(2 * MaxPercent), d \in {-1, 0, 1}} : q >= 0}

\* ------------------------------------------------------ the history store
\* The SQLite file: whether table `records` exists, its rows in insertion
\* order, and the AUTOINCREMENT counter (sqlite_sequence).
EmptyDb == [exists |-> FALSE, rows |-> <<>>, seq |-> 0]

\* Mutant of init_db: the table is created anew, which drops its rows.
InitDbRecreate(d) == [d EXCEPT !.exists = TRUE, !.rows = <<>>]

\* CREATE TABLE IF NOT EXISTS records (...)
init_db(d) == [d EXCEPT !.exists = TRUE]

NewRow(d, ts, user_type, user_name, inputs, mensagem, probabilidade) ==
    [id |-> d.seq + 1, timestamp |-> ts, user_type |-> user_type, user_name |-> user_name,
     inputs |-> inputs, mensagem |-> mensagem, probabilidade |-> probabilidade]

\* Mutant of save_record: the INSERT is executed twice.
SaveRecordTwice(d, ts, user_type, user_name, inputs, mensagem, probabilidade) ==
    LET r1 == NewRow(d, ts, user_type, user_name, inputs, mensagem, probabilidade)
        r2 == [r1 EXCEPT !.id = d.seq + 2]
    IN  [d EXCEPT !.rows = @ \o <<r1, r2>>, !.seq = d.seq + 2]

\* save_record on an existing table: one INSERT, whose id is the next value
\* of the AUTOINCREMENT counter and whose timestamp is the clock reading ts.
save_record(d, ts, user_type, user_name, inputs, mensagem, probabilidade) ==
    [d EXCEPT !.rows = Append(@, NewRow(d, ts, user_type, user_name, inputs, mensagem,
                                         probabilidade)),
              !.seq = d.seq + 1]

\* ------------------------------------------------------------ the two forms
\* The values the Prever form holds when nothing was touched.
PreverFormDefault ==
    [k \in Range(AllKeys) |->
        CASE k = "Nome" -> Str("")
          [] k \in {"family_history", "FAVC", "SMOKE", "SCC"} -> Str("yes")
          [] k \in {"FCVC", "NCP"} -> Whole(3)
          [] k = "CAEC" -> Str("no")
          [] k = "CH2O" -> Whole(2)
          [] k \in {"FAF", "TUE"} -> Whole(1)
          [] k = "CALC" -> Str("never")
          [] k = "MTRANS" -> Str("Automobile")
          [] OTHER -> Absent]

\* The submissions of the Prever form that are tried.
PreverForms == {[PreverFormDefault EXCEPT !["Nome"] = n] : n \in {Str(""), Str("Ana")}}

\* The options of the Prever form's radios and select boxes (accents left
\* out) and the tables that turn the chosen option into the submitted value.
SimNao == {"Sim", "Nao"}

FromSimNao(display) == IF display = "Sim" THEN "yes" ELSE "no"

FreqDisplay == {"Nunca", "As vezes", "Frequentemente", "Sempre"}

CAEC_MAP ==
    [k \in FreqDisplay |->
        CASE k = "Nunca" -> "no"
          [] k = "As vezes" -> "Sometimes"
          [] k = "Frequentemente" -> "Frequently"
          [] k = "Sempre" -> "Always"]

CALC_MAP ==
    [k \in FreqDisplay \cup {"no"} |->
        CASE k = "Nunca" -> "never"
          [] k = "As vezes" -> "sometimes"
          [] k = "Frequentemente" -> "frequently"
          [] k = "Sempre" -> "always"
          [] k = "no" -> "never"]

TranspDisplay == {"Automovel", "Moto", "Transporte Publico", "Bicicleta", "A pe"}

MTRANS_MAP ==
    [k \in TranspDisplay |->
        CASE k = "Automovel" -> "Automobile"
          [] k = "Moto" -> "Motorbike"
          [] k = "Transporte Publico" -> "Public_Transportation"
          [] k = "Bicicleta" -> "Bike"
          [] k = "A pe" -> "Walking"]

\* table.get(key, default)
DictGet(table, key, default) == IF key \in DOMAIN table THEN table[key] ELSE default

\* What the user chose in the categorical widgets of the Prever form.
PreverChoices ==
    [family_history : SimNao, FAVC : SimNao, SMOKE : SimNao, SCC : SimNao,
     CAEC : FreqDisplay, CALC : FreqDisplay, MTRANS : TranspDisplay]

\* The `inputs` the Prever form builds for the choices ch (numbers at their
\* defaults, a name given).
PreverInputs(ch) ==
    [PreverFormDefault EXCEPT
        !["Nome"] = Str("Ana"),
        !["family_history"] = Str(FromSimNao(ch.family_history)),
        !["FAVC"] = Str(FromSimNao(ch.FAVC)),
        !["SMOKE"] = Str(FromSimNao(ch.SMOKE)),
        !["SCC"] = Str(FromSimNao(ch.SCC)),
        !["CAEC"] = Str(DictGet(CAEC_MAP, ch.CAEC, "no")),
        !["CALC"] = Str(DictGet(CALC_MAP, ch.CALC, "never")),
        !["MTRANS"] = Str(DictGet(MTRANS_MAP, ch.MTRANS, "Automobile"))]

\* The values the single-file app's form holds when nothing was touched.
FullFormDefault == [PreverFormDefault EXCEPT !["CALC"] = Str("no")]

\* The submissions of the single-file app's form that are tried.
FullForms == {FullFormDefault}

\* The classifier's answers that are tried in the application; neither is
\* at a tie of the two-decimal formatting.
AppAnswers == {[label |-> 0, p |-> 29999], [label |-> 1, p |-> 60000]}

\* predict_fn(inputs) = predict_from_input(model, inputs) for each classifier,
\* submitted form and answer of the classifier.
FormPrediction ==
    [c \in Classifiers, f \in PreverForms \cup FullForms, a \in AppAnswers |->
        predict_from_input(c, a, AsDict(f, AllKeys), TRUE)]

\* float(re.search(r"([\d.,]+)", prob_raw).group(1)): the percentage the
\* text carries, in thousandths of a percent.
ParseProb(probMsg) == probMsg.pct * 10

\* ------------------------------------------------------------ a script run
\* What one run of a page ended with: the exception that ended it ("none"
\* when it ran to its end), the elements it rendered, the store after it and
\* whether the form is on the page.
Outcome(err, shown, d, wrote, hasForm) ==
    [err |-> err, shown |-> shown, db |-> d, wrote |-> wrote, hasForm |-> hasForm]

ResultElements == {"result", "metric", "chart", "recs"}

\* Mutant of RenderPredictSubmit: the record is written before the result
\* of the prediction is looked at.
RenderPredictSubmitSaveFirst(page, d, ts, user, form, res) ==
    LET inputs == AsDict(form, AllKeys)
        saved == save_record(d, ts, user.type, user.name, inputs, res.mensagem, 0)
    IN  IF page = "Prever.py" /\ form["Nome"] = Str("")
        THEN Outcome("none", {"form", "error_nome"}, d, 0, TRUE)
        ELSE IF res.err # "none"
        THEN Outcome(res.err, {"form"}, saved, 1, TRUE)
        ELSE IF "probabilidade" \notin res.keys
        THEN Outcome("none", {"form", "error_no_prob"}, d, 0, TRUE)
        ELSE IF ~d.exists
        THEN Outcome("OperationalError", {"form"} \cup ResultElements, d, 0, TRUE)
        ELSE Outcome("none", {"form", "saved_info", "pdf"} \cup ResultElements,
                     save_record(d, ts, user.type, user.name, inputs, res.mensagem,
                                 ParseProb(res.probabilidade)), 1, TRUE)

\* render_predict after the form was submitted, where predict_fn(inputs)
\* ended with res.  page "Prever.py" is the multi-page app's form, which
\* requires the name; the single-file app's form does not.
RenderPredictSubmit(page, d, ts, user, form, res) ==
    LET inputs == AsDict(form, AllKeys)
    IN  IF page = "Prever.py" /\ form["Nome"] = Str("")
        THEN Outcome("none", {"form", "error_nome"}, d, 0, TRUE)
        ELSE IF res.err # "none"
        THEN Outcome(res.err, {"form"}, d, 0, TRUE)
        ELSE IF "probabilidade" \notin res.keys
        THEN Outcome("none", {"form", "error_no_prob"}, d, 0, TRUE)
        ELSE IF ~d.exists
        THEN Outcome("OperationalError", {"form"} \cup ResultElements, d, 0, TRUE)
        ELSE Outcome("none", {"form", "saved_info", "pdf"} \cup ResultElements,
                     save_record(d, ts, user.type, user.name, inputs, res.mensagem,
                                 ParseProb(res.probabilidade)), 1, TRUE)

\* render_historico / render_history: SELECT ... FROM records.
RenderHistorico(d) ==
    IF ~d.exists THEN Outcome("OperationalError", {}, d, 0, FALSE)
    ELSE IF d.rows = <<>> THEN Outcome("none", {"empty_history"}, d, 0, FALSE)
    ELSE Outcome("none", {"history", "csv"}, d, 0, FALSE)

\* st.session_state.get('user_type', 'anon'), .get('user_name', 'anon')
SessionUser(sess) ==
    [type |-> IF sess.user_type = "unset" THEN "anon" ELSE sess.user_type,
     name |-> IF sess.user_name = "unset" THEN "anon" ELSE sess.user_name]

\* ------------------------------------------------- the PDF report's cells
\* The PDF object as _safe_multi_cell uses it (font_size_pt in fixed point,
\* l_margin, r_margin) together with the frame of one call: its position,
\* the text after `txt = txt or "-"`, min_font_size, the loop variable, the
\* font size and margins at entry, and the multi_cell calls made so far.
SafeMultiCellCall(font, l, r, txt, min_font_size) ==
    [pc |-> "first", txt |-> IF txt = "" THEN "-" ELSE txt, min_font_size |-> min_font_size,
     font_size_pt |-> font, l_margin |-> l, r_margin |-> r, reduced_size |-> 0,
     entry |-> [font |-> font, l |-> l, r |-> r], attempts |-> <<>>]

\* One call pdf.multi_cell(w, h, txt): what it was asked to write, under
\* which font size and margins, and whether it returned (ok) or raised.
MultiCell(s, txt, ok) ==
    [txt |-> txt, size |-> s.font_size_pt, l |-> s.l_margin, r |-> s.r_margin, ok |-> ok]

\* try: pdf.multi_cell(w, h, txt); return / except: enter the range
\* range(int(current_size) - 1, min_font_size - 1, -1).
FirstAttempt(s, ok) ==
    LET t == [s EXCEPT !.attempts = Append(@, MultiCell(s, s.txt, ok))]
        start == (s.font_size_pt \div Scale) - 1
    IN  IF ok THEN [t EXCEPT !.pc = "returned"]
        ELSE IF start > s.min_font_size - 1
        THEN [t EXCEPT !.pc = "reduce", !.reduced_size = start]
        ELSE [t EXCEPT !.pc = "margins"]

\* Mutant of ReducedAttempt: the range ends one size lower.
ReducedAttemptBelowMin(s, ok) ==
    LET u == [s EXCEPT !.font_size_pt = s.reduced_size * Scale]
        t == [u EXCEPT !.attempts = Append(@, MultiCell(u, u.txt, ok))]
    IN  IF ok THEN [t EXCEPT !.pc = "returned"]
        ELSE IF s.reduced_size - 1 > s.min_font_size - 2
        THEN [t EXCEPT !.reduced_size = @ - 1]
        ELSE [t EXCEPT !.pc = "margins"]

\* One pass of the loop: set_font_size(reduced_size), multi_cell, return /
\* continue.
ReducedAttempt(s, ok) ==
    LET u == [s EXCEPT !.font_size_pt = s.reduced_size * Scale]
        t == [u EXCEPT !.attempts = Append(@, MultiCell(u, u.txt, ok))]
    IN  IF ok THEN [t EXCEPT !.pc = "returned"]
        ELSE IF s.reduced_size - 1 > s.min_font_size - 1
        THEN [t EXCEPT !.reduced_size = @ - 1]
        ELSE [t EXCEPT !.pc = "margins"]

\* The retry under margins of 2: the margins are put back after the write;
\* an exception leaves the try block before that.
MarginAttempt(s, ok) ==
    LET u == [s EXCEPT !.l_margin = 2, !.r_margin = 2]
        t == [u EXCEPT !.attempts = Append(@, MultiCell(u, u.txt, ok))]
    IN  IF ok THEN [t EXCEPT !.l_margin = s.l_margin, !.r_margin = s.r_margin,
                             !.pc = "returned"]
        ELSE [t EXCEPT !.pc = "dash"]

\* Mutant of DashAttempt: the last write is outside a try block.
DashAttemptUnguarded(s, ok) ==
    LET u == [s EXCEPT !.font_size_pt = s.min_font_size * Scale]
    IN  [u EXCEPT !.attempts = Append(@, MultiCell(u, "-", ok)),
                  !.pc = IF ok THEN "returned" ELSE "raised"]

\* The final fallback: set_font_size(min_font_size), multi_cell("-"), any
\* exception passed over.
DashAttempt(s, ok) ==
    LET u == [s EXCEPT !.font_size_pt = s.min_font_size * Scale]
    IN  [u EXCEPT !.attempts = Append(@, MultiCell(u, "-", ok)), !.pc = "returned"]

\* The font sizes a cell is entered with: the whole and half points from 4
\* to MaxFontSize.
FontSizes == {k * Scale + d : k \in 4..MaxFontSize, d \in {0, Scale \div 2}}

\* ------------------------------------------------------------------ state
VARIABLES
    obs,        \* the RawObservation handed to the encoder / the wrapper
    encOut,     \* what preprocess_input(obs) ended with, once it was called
    clf,        \* the classifier handed to the wrapper
    answer,     \* what the classifier answered in the wrapper's call
    predOut,    \* what predict_from_input(clf, obs) ended with, once called
    probIn,     \* the probability (percent) handed to the risk classification
    tierOut,    \* the tier chosen for probIn, once chosen
    db,         \* the history store (patients.db)
    now,        \* the clock datetime.now reads
    mlCache,    \* st.cache_resource of load_ml_model: "empty", "none", "model"
    session,    \* st.session_state of the single-file app: auth, user_type, user_name
    formShown,  \* whether each app's page in the browser holds the form
    last,       \* the last script run: app, page, submitted, err, shown, wrote
    loadFailed, \* whether load_model raised in some run of app.py
    nReturned,  \* the number of submissions whose predict_fn(inputs) returned
    nOk,        \* the number of submissions whose result was displayed
    tables,     \* the module-level mapping tables of production_pipeline
    calls,      \* the calls of preprocess_input made so far, with their outcomes
    smc,        \* the PDF object and the frame of a call of _safe_multi_cell on it
    login       \* the last button pressed in the login expander, with its inputs

pipeVars == <<obs, encOut, clf, answer, predOut>>

tierVars == <<probIn, tierOut>>

appVars == <<db, now, mlCache, session, formShown, last, loadFailed, nReturned, nOk>>

callVars == <<tables, calls>>

pdfVars == <<smc>>

authVars == <<login>>

vars == <<pipeVars, tierVars, appVars, callVars, pdfVars, authVars>>

NotCalled == [called |-> FALSE, err |-> "none", vec |-> <<>>, missing |-> <<>>]

NotPredicted ==
    [called |-> FALSE, err |-> "none", missing |-> <<>>, clfInput |-> <<>>,
     clfCalled |-> FALSE, keys |-> {}, mensagem |-> "", probabilidade |-> NoProbMsg]

NoClassifier == [hasProba |-> FALSE, nanOk |-> FALSE]

NoAnswer == [label |-> 0, p |-> 0]

NoTier == [called |-> FALSE, risco |-> "", previsao |-> "", chart |-> "", badge |-> <<>>]

PipeIdle ==
    /\ obs = <<>>
    /\ encOut = NotCalled
    /\ clf = NoClassifier
    /\ answer = NoAnswer
    /\ predOut = NotPredicted

TierIdle == probIn = 0 /\ tierOut = NoTier

UnsetSession == [auth |-> "unset", user_type |-> "unset", user_name |-> "unset"]

NoRun ==
    [app |-> "", page |-> "", submitted |-> FALSE, err |-> "none", shown |-> {}, wrote |-> 0]

AppIdle ==
    /\ db = EmptyDb
    /\ now = 0
    /\ mlCache = "empty"
    /\ session = UnsetSession
    /\ formShown = [app |-> FALSE, full |-> FALSE]
    /\ last = NoRun
    /\ loadFailed = FALSE
    /\ nReturned = 0
    /\ nOk = 0

CallsIdle == tables = ModuleTables /\ calls = <<>>

NoSafeMultiCell ==
    [pc |-> "idle", txt |-> "", min_font_size |-> 0, font_size_pt |-> 0, l_margin |-> 0,
     r_margin |-> 0, reduced_size |-> 0, entry |-> [font |-> 0, l |-> 0, r |-> 0],
     attempts |-> <<>>]

PdfIdle == smc = NoSafeMultiCell

NoLogin == [button |-> "none", user |-> "", pwd |-> "", tipo |-> ""]

AuthIdle == login = NoLogin

\* ---- the encoder alone
InitEncode ==
    /\ obs \in RawObservations(KeyOrders)
    /\ encOut = NotCalled
    /\ clf = NoClassifier
    /\ answer = NoAnswer
    /\ predOut = NotPredicted
    /\ TierIdle
    /\ AppIdle
    /\ CallsIdle
    /\ PdfIdle
    /\ AuthIdle

\* One call of preprocess_input on the observation.
PreprocessInput ==
    /\ ~encOut.called
    /\ LET r == preprocess_input(obs)
       IN  encOut' = [called |-> TRUE, err |-> r.err, vec |-> Row(r.df),
                      missing |-> r.missing]
    /\ UNCHANGED <<obs, clf, answer, predOut, tierVars, appVars, callVars, pdfVars, authVars>>

NextEncode == PreprocessInput

SpecEncode == InitEncode /\ [][NextEncode]_vars

\* ---- calls of the encoder, one after another
\* The observations handed to the encoder beside the one the caller holds.
CallObservations ==
    <<AsDict(BaseObs, AllKeys),
      AsDict([BaseObs EXCEPT !["MTRANS"] = Absent], AllKeys),
      AsDict([BaseObs EXCEPT !["family_history"] = Str("no"), !["Nome"] = Str("Ana")],
             Reverse(AllKeys)),
      AsDict([BaseObs EXCEPT !["CAEC"] = Str("sometimes")], AllKeys),
      AsDict([BaseObs EXCEPT !["FAF"] = Num(Scale + 2), !["Gender"] = Str("Male")], AllKeys)>>

InitCalls ==
    /\ obs \in Range(CallObservations)
    /\ encOut = NotCalled
    /\ clf = NoClassifier
    /\ answer = NoAnswer
    /\ predOut = NotPredicted
    /\ TierIdle
    /\ AppIdle
    /\ CallsIdle
    /\ PdfIdle
    /\ AuthIdle

CallEntry(object, raw, c) ==
    [object |-> object, raw |-> raw, after |-> c.input, err |-> c.ret.err,
     vec |-> Row(c.ret.df), missing |-> c.ret.missing]

\* preprocess_input called on the mapping the caller holds (object 0).
EncodeHeld ==
    /\ Len(calls) < MaxCalls
    /\ LET c == PreprocessCall(obs, tables)
       IN  /\ obs' = c.input
           /\ tables' = c.tables
           /\ calls' = Append(calls, CallEntry(0, obs, c))
    /\ UNCHANGED <<encOut, clf, answer, predOut, tierVars, appVars, pdfVars, authVars>>

\* preprocess_input called on another observation (object k).
EncodeOther ==
    /\ Len(calls) < MaxCalls
    /\ \E k \in DOMAIN CallObservations :
        LET c == PreprocessCall(CallObservations[k], tables)
        IN  /\ tables' = c.tables
            /\ calls' = Append(calls, CallEntry(k, CallObservations[k], c))
    /\ UNCHANGED <<pipeVars, tierVars, appVars, pdfVars, authVars>>

NextCalls == EncodeHeld \/ EncodeOther

SpecCalls == InitCalls /\ [][NextCalls]_vars

\* ---- the encoder on what the Prever form submits
InitForm ==
    /\ obs \in {AsDict(PreverInputs(ch), AllKeys) : ch \in PreverChoices}
    /\ encOut = NotCalled
    /\ clf = NoClassifier
    /\ answer = NoAnswer
    /\ predOut = NotPredicted
    /\ TierIdle
    /\ AppIdle
    /\ CallsIdle
    /\ PdfIdle
    /\ AuthIdle

SpecForm == InitForm /\ [][NextEncode]_vars

\* ---- the encoder on observations that name a field by its internal name
\* The categorical fields whose column goes through Series.map.
MappedKeys == <<"family_history", "FAVC", "CAEC", "SMOKE", "SCC", "CALC", "MTRANS">>

\* The scenario's observation with the internal name of field k carrying v:
\* beside the survey code (as the first or as the last key), or in its place.
InternalNameObservations ==
    LET base == AsDict(BaseObs, AllKeys)
        with(k, v) ==
            {<<[k |-> _COLUMN_RENAME[k], v |-> v]>> \o base,
             base \o <<[k |-> _COLUMN_RENAME[k], v |-> v]>>,
             [i \in DOMAIN base |-> IF base[i].k = k
                                     THEN [k |-> _COLUMN_RENAME[k], v |-> v]
                                     ELSE base[i]]}
    IN  UNION {UNION {with(k, v) : v \in FieldDomain(k) \ {Absent}} :
               k \in Range(MappedKeys)}

\* Two columns of the table carry the same name.
HasDuplicateColumn(df) == \E i, j \in DOMAIN df : i # j /\ df[i].name = df[j].name

InitRename ==
    /\ obs \in InternalNameObservations
    /\ encOut = NotCalled
    /\ clf = NoClassifier
    /\ answer = NoAnswer
    /\ predOut = NotPredicted
    /\ TierIdle
    /\ AppIdle
    /\ CallsIdle
    /\ PdfIdle
    /\ AuthIdle

\* One call of preprocess_input on the observation.  When the renamed table
\* holds a column name twice, df[col] is a table and not a column: its
\* .map(dict) raises AttributeError (pandas before 2.1, no DataFrame.map) or
\* TypeError (from 2.1 on, the argument must be callable).
PreprocessInputRenamed ==
    /\ ~encOut.called
    /\ IF HasDuplicateColumn(Rename(DataFrame(obs), _COLUMN_RENAME))
       THEN \E e \in {"AttributeError", "TypeError"} :
               encOut' = [called |-> TRUE, err |-> e, vec |-> <<>>, missing |-> <<>>]
       ELSE LET r == preprocess_input(obs)
            IN  encOut' = [called |-> TRUE, err |-> r.err, vec |-> Row(r.df),
                           missing |-> r.missing]
    /\ UNCHANGED <<obs, clf, answer, predOut, tierVars, appVars, callVars, pdfVars, authVars>>

SpecRename == InitRename /\ [][PreprocessInputRenamed]_vars

\* ---- one call of _safe_multi_cell
InitCell ==
    /\ PipeIdle
    /\ TierIdle
    /\ AppIdle
    /\ CallsIdle
    /\ AuthIdle
    /\ smc \in {SafeMultiCellCall(f, l, r, txt, m) :
                    f \in FontSizes, l \in {2, 10}, r \in {10, 15},
                    txt \in {"Nome: Ana", ""}, m \in {6, 7}}

\* Each step makes one multi_cell call, which returns or raises.
SmcFirst ==
    /\ smc.pc = "first"
    /\ \E ok \in BOOLEAN : smc' = FirstAttempt(smc, ok)
    /\ UNCHANGED <<pipeVars, tierVars, appVars, callVars, authVars>>

SmcReduced ==
    /\ smc.pc = "reduce"
    /\ \E ok \in BOOLEAN : smc' = ReducedAttempt(smc, ok)
    /\ UNCHANGED <<pipeVars, tierVars, appVars, callVars, authVars>>

SmcMargins ==
    /\ smc.pc = "margins"
    /\ \E ok \in BOOLEAN : smc' = MarginAttempt(smc, ok)
    /\ UNCHANGED <<pipeVars, tierVars, appVars, callVars, authVars>>

SmcDash ==
    /\ smc.pc = "dash"
    /\ \E ok \in BOOLEAN : smc' = DashAttempt(smc, ok)
    /\ UNCHANGED <<pipeVars, tierVars, appVars, callVars, authVars>>

NextCell == SmcFirst \/ SmcReduced \/ SmcMargins \/ SmcDash

\* The call runs on: a function that was entered keeps executing.
SpecCell == InitCell /\ [][NextCell]_vars /\ WF_vars(NextCell)

\* ---- the wrapper
InitPredict ==
    /\ obs \in PredictObservations(AllKeys)
    /\ encOut = NotCalled
    /\ clf \in Classifiers
    /\ answer = NoAnswer
    /\ predOut = NotPredicted
    /\ TierIdle
    /\ AppIdle
    /\ CallsIdle
    /\ PdfIdle
    /\ AuthIdle

\* One call of predict_from_input(clf, obs).
PredictFromInput ==
    /\ ~predOut.called
    /\ \E ans \in Answers :
       \E up \in (IF ans.p % 10 = 5 THEN BOOLEAN ELSE {TRUE}) :
        /\ predOut' = predict_from_input(clf, ans, obs, up)
        /\ answer' = IF predOut'.clfCalled /\ predOut'.err = "none" THEN ans ELSE NoAnswer
    /\ UNCHANGED <<obs, encOut, clf, tierVars, appVars, callVars, pdfVars, authVars>>

NextPredict == PredictFromInput

SpecPredict == InitPredict /\ [][NextPredict]_vars

\* ---- the risk tiers
InitTier ==
    /\ PipeIdle
    /\ probIn \in TierProbs
    /\ tierOut = NoTier
    /\ AppIdle
    /\ CallsIdle
    /\ PdfIdle
    /\ AuthIdle

\* The tier and the binary reading the Prever page shows for probIn, the
\* colour of the bar it draws and of the badge in the PDF it offers.
ClassifyRisk ==
    /\ ~tierOut.called
    /\ tierOut' = [called |-> TRUE, risco |-> Risco(probIn),
                   previsao |-> PrevisaoBinaria(probIn),
                   chart |-> render_risk_chart(probIn), badge |-> rfill(probIn)]
    /\ UNCHANGED <<pipeVars, probIn, appVars, callVars, pdfVars, authVars>>

NextTier == ClassifyRisk

SpecTier == InitTier /\ [][NextTier]_vars

\* ---- the two applications on one history store
\* Both entry scripts open "patients.db" of the working directory.
Init ==
    /\ obs = <<>>
    /\ encOut = NotCalled
    /\ clf \in Classifiers
    /\ answer = NoAnswer
    /\ predOut = NotPredicted
    /\ TierIdle
    /\ AppIdle
    /\ CallsIdle
    /\ PdfIdle
    /\ AuthIdle

\* The end of a script run: the store, the clock, the page in the browser
\* and the summary of the run.  app.py calls init_db() after the page, so
\* only when the page raised nothing.
EndRun(app, page, submitted, out, ts) ==
    /\ db' = IF app = "app.py" /\ out.err = "none" THEN init_db(out.db) ELSE out.db
    /\ now' = IF out.wrote > 0 THEN ts ELSE now
    /\ formShown' = IF app = "app.py" THEN [formShown EXCEPT !.app = out.hasForm]
                    ELSE [formShown EXCEPT !.full = out.hasForm]
    /\ last' = [app |-> app, page |-> page, submitted |-> submitted, err |-> out.err,
                shown |-> out.shown, wrote |-> out.wrote]
    /\ loadFailed' = (loadFailed \/ (app = "app.py" /\ out.err = "ModelUnavailable"))
    /\ nReturned' = IF out.shown \cap {"result", "error_no_prob"} # {}
                     THEN nReturned + 1 ELSE nReturned
    /\ nOk' = IF "result" \in out.shown THEN nOk + 1 ELSE nOk

\* A submission needs the form on the page; submissions stop at MaxRecords.
MayRun(page, submit, shown) ==
    submit => (page = "Prever" /\ shown /\ Len(db.rows) < MaxRecords
                                         /\ nReturned < MaxRecords)

\* app.py, whatever the page (Home, or Prever with the form submitted):
\* load_model(xgb_model_path) at the top of the script raises, which ends
\* the run before main().
AppModelLoadFails ==
    \E submit \in BOOLEAN :
        /\ MayRun("Prever", submit, formShown.app)
        /\ EndRun("app.py", IF submit THEN "Prever" ELSE "Home", submit,
                  Outcome("ModelUnavailable", {}, db, 0, FALSE), now)
        /\ UNCHANGED <<pipeVars, tierVars, callVars, mlCache, session, pdfVars, authVars>>

\* app.py, page Home (and the pages without store access).
AppHome ==
    /\ EndRun("app.py", "Home", FALSE, Outcome("none", {"home"}, db, 0, FALSE), now)
    /\ UNCHANGED <<pipeVars, tierVars, callVars, mlCache, session, pdfVars, authVars>>

\* app.py, page Historico.
AppHistorico ==
    /\ EndRun("app.py", "Historico", FALSE, RenderHistorico(db), now)
    /\ UNCHANGED <<pipeVars, tierVars, callVars, mlCache, session, pdfVars, authVars>>

\* Mutant of LoadMlModel: None is not kept, the next call loads again.
LoadMlModelRetry(loaded) ==
    IF mlCache = "model" THEN mlCache ELSE (IF loaded THEN "model" ELSE "none")

\* load_ml_model() under st.cache_resource: the first call loads a model
\* file of src/models (loaded) or returns None; the value, None included,
\* is what every later call returns.
LoadMlModel(loaded) ==
    IF mlCache = "empty" THEN (IF loaded THEN "model" ELSE "none") ELSE mlCache

\* app.py, page Prever, no submission: the model, the metrics (which raise
\* NameError when the validation data could not be scored), the form.
AppPreverView ==
    \E loaded \in BOOLEAN, dataOk \in BOOLEAN :
        /\ mlCache' = LoadMlModel(loaded)
        /\ EndRun("app.py", "Prever", FALSE,
                  IF mlCache' = "none" THEN Outcome("none", {"model_error"}, db, 0, FALSE)
                  ELSE IF ~dataOk THEN Outcome("NameError", {}, db, 0, FALSE)
                  ELSE Outcome("none", {"form"}, db, 0, TRUE),
                  now)
        /\ UNCHANGED <<pipeVars, tierVars, callVars, session, pdfVars, authVars>>

\* app.py, page Prever, the form submitted.
AppPreverSubmit ==
    \E dataOk \in BOOLEAN, form \in PreverForms, ans \in AppAnswers, tick \in 0..1 :
        /\ MayRun("Prever", TRUE, formShown.app)
        /\ mlCache' = LoadMlModel(TRUE)
        /\ EndRun("app.py", "Prever", TRUE,
                  IF mlCache' = "none" THEN Outcome("none", {"model_error"}, db, 0, FALSE)
                  ELSE IF ~dataOk THEN Outcome("NameError", {}, db, 0, FALSE)
                  ELSE RenderPredictSubmit("Prever.py", db, now + tick,
                                           SessionUser(UnsetSession), form,
                                           FormPrediction[clf, form, ans]),
                  now + tick)
        /\ UNCHANGED <<pipeVars, tierVars, callVars, session, pdfVars, authVars>>

\* auth_widget() at the start of a run: the keys are created once.
AuthInit(sess) ==
    IF sess.auth = "unset"
    THEN [auth |-> "False", user_type |-> "None", user_name |-> "None"]
    ELSE sess

CREDENTIALS ==
    [tipo \in {"medico", "paciente"} |->
        [user |-> tipo, pass |-> IF tipo = "medico" THEN "med123" ELSE "pac123"]]

\* Mutant of AuthWidgetEntrar: the password is not compared.
AuthWidgetEntrarAnyPassword(sess, user, pwd, tipo) ==
    IF tipo \in DOMAIN CREDENTIALS /\ user = CREDENTIALS[tipo].user
    THEN [auth |-> "True", user_type |-> tipo, user_name |-> user]
    ELSE sess

\* auth_widget() in a run where 'Entrar' was pressed with these inputs.
AuthWidgetEntrar(sess, user, pwd, tipo) ==
    IF /\ tipo \in DOMAIN CREDENTIALS
       /\ user = CREDENTIALS[tipo].user
       /\ pwd = CREDENTIALS[tipo].pass
    THEN [auth |-> "True", user_type |-> tipo, user_name |-> user]
    ELSE sess

\* auth_widget() in a run where 'Sair' was pressed.
AuthWidgetSair(sess) == [auth |-> "False", user_type |-> "None", user_name |-> "None"]

\* streamlit_app_full.py, whatever the page: load_model raises in main().
FullModelLoadFails ==
    \E submit \in BOOLEAN :
        /\ MayRun("Prever", submit, formShown.full)
        /\ EndRun("streamlit_app_full.py", IF submit THEN "Prever" ELSE "Home", submit,
                  Outcome("ModelUnavailable", {}, db, 0, FALSE), now)
        /\ UNCHANGED <<pipeVars, tierVars, callVars, mlCache, session, pdfVars, authVars>>

\* streamlit_app_full.py, page Home: init_db(), auth_widget(), the page.
FullHome ==
    /\ session' = AuthInit(session)
    /\ EndRun("streamlit_app_full.py", "Home", FALSE,
              Outcome("none", {"home"}, init_db(db), 0, FALSE), now)
    /\ UNCHANGED <<pipeVars, tierVars, callVars, mlCache, pdfVars, authVars>>

\* streamlit_app_full.py, page Historico.
FullHistorico ==
    /\ session' = AuthInit(session)
    /\ EndRun("streamlit_app_full.py", "Historico", FALSE, RenderHistorico(init_db(db)), now)
    /\ UNCHANGED <<pipeVars, tierVars, callVars, mlCache, pdfVars, authVars>>

\* streamlit_app_full.py, page Prever, no submission.
FullPreverView ==
    /\ session' = AuthInit(session)
    /\ EndRun("streamlit_app_full.py", "Prever", FALSE,
              Outcome("none", {"form"}, init_db(db), 0, TRUE), now)
    /\ UNCHANGED <<pipeVars, tierVars, callVars, mlCache, pdfVars, authVars>>

\* streamlit_app_full.py, page Prever, the form submitted.
FullPreverSubmit ==
    \E form \in FullForms, ans \in AppAnswers, tick \in 0..1 :
        /\ MayRun("Prever", TRUE, formShown.full)
        /\ session' = AuthInit(session)
        /\ EndRun("streamlit_app_full.py", "Prever", TRUE,
                  RenderPredictSubmit("streamlit_app_full.py", init_db(db), now + tick,
                                      SessionUser(session'), form,
                                      FormPrediction[clf, form, ans]),
                  now + tick)
        /\ UNCHANGED <<pipeVars, tierVars, callVars, mlCache, pdfVars, authVars>>

\* streamlit_app_full.py, page Home, 'Entrar' pressed: the button is on the
\* page when the last run of this app drew the expander for a session that
\* is not logged in.
FullLoginAttempt ==
    \E user \in {"medico", "paciente", "ana"}, pwd \in {"med123", "pac123", ""},
       tipo \in {"medico", "paciente"} :
        /\ session.auth = "False"
        /\ session' = AuthWidgetEntrar(session, user, pwd, tipo)
        /\ login' = [button |-> "Entrar", user |-> user, pwd |-> pwd, tipo |-> tipo]
        /\ EndRun("streamlit_app_full.py", "Home", FALSE,
                  Outcome("none", {"home"}, init_db(db), 0, FALSE), now)
        /\ UNCHANGED <<pipeVars, tierVars, callVars, mlCache, pdfVars>>

\* streamlit_app_full.py, page Home, 'Sair' pressed: the session is reset,
\* then st.experimental_rerun() starts the script again, or raises
\* AttributeError where Streamlit no longer has it.
FullLogout ==
    \E has_rerun \in BOOLEAN :
        /\ session.auth = "True"
        /\ session' = AuthWidgetSair(session)
        /\ login' = [NoLogin EXCEPT !.button = "Sair"]
        /\ EndRun("streamlit_app_full.py", "Home", FALSE,
                  IF has_rerun THEN Outcome("none", {"home"}, init_db(db), 0, FALSE)
                  ELSE Outcome("AttributeError", {}, init_db(db), 0, FALSE), now)
        /\ UNCHANGED <<pipeVars, tierVars, callVars, mlCache, pdfVars>>

NextAuth ==
    FullHome \/ FullHistorico \/ FullPreverView \/ FullLoginAttempt \/ FullLogout

\* ---- the login expander of the single-file application
SpecAuth == Init /\ [][NextAuth]_vars

Next ==
    \/ AppModelLoadFails
    \/ AppHome
    \/ AppHistorico
    \/ AppPreverView
    \/ AppPreverSubmit
    \/ FullModelLoadFails
    \/ FullHome
    \/ FullHistorico
    \/ FullPreverView
    \/ FullPreverSubmit

Spec == Init /\ [][Next]_vars

\* ------------------------------------------------------ encoder properties
Encoded == encOut.called /\ encOut.err = "none"

\* The observation carries exactly the twelve survey fields and keys outside
\* the rename table's targets (the RawObservation of the data model).
HasAllRequired(input) == \A k \in Range(RequiredKeys) : Get(input, k) # Absent

\* The value the encoder's rules give the feature `name` for the mapping m.
FeatureOf(name, m) ==
    CASE name = "hist_familiar_obes" -> YesNo(m["family_history"])
      [] name = "cons_altas_cal_freq" -> YesNo(m["FAVC"])
      [] name = "cons_verduras" -> Round0(m["FCVC"])
      [] name = "refeicoes_principais_dia" -> Round0(m["NCP"])
      [] name = "lancha_entre_ref_bin" -> FreqBin(m["CAEC"])
      [] name = "fuma" -> YesNo(m["SMOKE"])
      [] name = "agua_dia" -> Round0(m["CH2O"])
      [] name = "controle_calorias" -> YesNo(m["SCC"])
      [] name = "ativ_fisica_bin" -> AtivBin(Round0(m["FAF"]))
      [] name = "uso_tecnologia" -> Round0(m["TUE"])
      [] name = "cons_alcool_bin" -> FreqBin(m["CALC"])
      [] name = "trasporte_bin" -> TranspBin(m["MTRANS"])

FixedOrder ==
    <<"hist_familiar_obes", "cons_altas_cal_freq", "cons_verduras",
      "refeicoes_principais_dia", "lancha_entre_ref_bin", "fuma", "agua_dia",
      "controle_calorias", "ativ_fisica_bin", "uso_tecnologia", "cons_alcool_bin",
      "trasporte_bin">>

\* C1: whenever preprocess_input succeeds the result has exactly 12 elements
\* and element i is the value of the i-th name of the fixed list, whatever
\* the key order of the input mapping.
C1_OrderInvariant ==
    Encoded =>
        /\ Len(encOut.vec) = 12
        /\ \A i \in 1..12 : encOut.vec[i] = FeatureOf(FixedOrder[i], AsMapping(obs))

\* A successful encoding of an observation whose keys come in the reverse of
\* the form's order.
C1_Witness ==
    /\ Encoded
    /\ obs[1].k = "MTRANS"
    /\ obs[Len(obs)].k = "family_history"
    /\ encOut.vec[1] = Whole(1)
    /\ encOut.vec[12] = Whole(0)

ScenarioVector ==
    <<Whole(1), Whole(0), Whole(3), Whole(3), Whole(0), Whole(0),
      Whole(2), Whole(0), Whole(0), Whole(1), Whole(0), Whole(0)>>

\* C2: the end-to-end scenario {family_history:"yes", FAVC:"no", FCVC:3,
\* NCP:3, CAEC:"Sometimes", SMOKE:"no", CH2O:2, SCC:"no", FAF:1, TUE:1,
\* CALC:"Sometimes", MTRANS:"Walking"} encodes to [1,0,3,3,0,0,2,0,0,1,0,0].
C2_Scenario ==
    (encOut.called /\ AsMapping(obs) = BaseObs) =>
        /\ encOut.err = "none"
        /\ encOut.vec = ScenarioVector

C2_Witness ==
    /\ encOut.called
    /\ AsMapping(obs) = BaseObs
    /\ obs[1].k = "family_history"
    /\ encOut.vec = ScenarioVector

BinaryFields == {"family_history", "FAVC", "SMOKE", "SCC"}

\* Position of a binary field's feature in the vector.
BinaryIndex(k) ==
    CASE k = "family_history" -> 1 [] k = "FAVC" -> 2 [] k = "SMOKE" -> 6 [] k = "SCC" -> 8

\* C3: for each binary field "yes" encodes to 1 and "no" to 0, and any other
\* value makes the encoder raise instead of returning a vector.
C3_BinaryOrRaise ==
    encOut.called =>
        \A k \in BinaryFields :
            LET v == Get(obs, k)
            IN  /\ (Encoded /\ v = Str("yes")) => encOut.vec[BinaryIndex(k)] = Whole(1)
                /\ (Encoded /\ v = Str("no")) => encOut.vec[BinaryIndex(k)] = Whole(0)
                /\ (v # Absent /\ v \notin {Str("yes"), Str("no")}) => encOut.err # "none"

\* C5 as stated: omitting MTRANS from an otherwise complete observation
\* raises, and the error names MTRANS or its internal name transporte.
C5_NamesMTRANS ==
    (/\ encOut.called
     /\ Get(obs, "MTRANS") = Absent
     /\ \A k \in Range(RequiredKeys) \ {"MTRANS"} : Get(obs, k) # Absent) =>
        /\ encOut.err = "KeyError"
        /\ encOut.missing # <<>>
        /\ Range(encOut.missing) \subseteq {"MTRANS", "transporte"}

\* C5 amended: omitting MTRANS from an otherwise complete observation raises
\* KeyError, and the error names the derived feature trasporte_bin.
C5_NamesDerivedFeature ==
    (/\ encOut.called
     /\ Get(obs, "MTRANS") = Absent
     /\ \A k \in Range(RequiredKeys) \ {"MTRANS"} : Get(obs, k) # Absent) =>
        /\ encOut.err = "KeyError"
        /\ encOut.missing = <<"trasporte_bin">>

C5_Witness ==
    /\ encOut.called
    /\ AsMapping(obs) = [BaseObs EXCEPT !["MTRANS"] = Absent]
    /\ encOut.err = "KeyError"
    /\ encOut.vec = <<>>

\* The observation without the keys outside the twelve survey fields.
OnlyRequired(input) ==
    LET required(e) == e.k \in Range(RequiredKeys)
    IN  SelectSeq(input, required)

\* C13: an observation encodes as the observation without Nome, Gender, Age,
\* Height, Weight and Obesity does: the same vector, or the same error.
C13_ExtrasDiscarded ==
    encOut.called =>
        LET alone == preprocess_input(OnlyRequired(obs))
        IN  /\ encOut.err = alone.err
            /\ encOut.vec = Row(alone.df)

\* C13 witness: an observation carrying Gender was encoded to the vector of
\* the scenario.
C13_Witness ==
    /\ Encoded
    /\ Get(obs, "Gender") = Str("Male")
    /\ OnlyRequired(obs) # obs
    /\ encOut.vec = ScenarioVector

FreqValues == {Str("no"), Str("Sometimes"), Str("Frequently"), Str("Always")}

\* The bin of a valid frequency value.
ExpectedFreqBin(v) ==
    CASE v \in {Str("no"), Str("Sometimes")} -> Whole(0)
      [] v \in {Str("Frequently"), Str("Always")} -> Whole(1)

\* C14: for a valid CAEC (CALC) the bin lancha_entre_ref_bin (cons_alcool_bin)
\* is 0 for "no" and "Sometimes" and 1 for "Frequently" and "Always".
C14_FrequencyBins ==
    Encoded =>
        /\ Get(obs, "CAEC") \in FreqValues => encOut.vec[5] = ExpectedFreqBin(Get(obs, "CAEC"))
        /\ Get(obs, "CALC") \in FreqValues => encOut.vec[11] = ExpectedFreqBin(Get(obs, "CALC"))

\* C14 witness: CALC "Always" gave cons_alcool_bin 1 beside CAEC "Sometimes"
\* with lancha_entre_ref_bin 0.
C14_Witness ==
    /\ Encoded
    /\ Get(obs, "CALC") = Str("Always")
    /\ encOut.vec[11] = Whole(1)
    /\ Get(obs, "CAEC") = Str("Sometimes")
    /\ encOut.vec[5] = Whole(0)

TransportModes ==
    {Str("Automobile"), Str("Motorbike"), Str("Public_Transportation"), Str("Bike"),
     Str("Walking")}

\* C15: trasporte_bin is 0 for "Walking" and "Bike" and 1 for "Automobile",
\* "Motorbike" and "Public_Transportation".
C15_TransportBins ==
    (Encoded /\ Get(obs, "MTRANS") \in TransportModes) =>
        encOut.vec[12] = IF Get(obs, "MTRANS") \in {Str("Walking"), Str("Bike")}
                         THEN Whole(0) ELSE Whole(1)

\* C15 witness: "Bike" gave trasporte_bin 0.
C15_Witness ==
    /\ Encoded
    /\ Get(obs, "MTRANS") = Str("Bike")
    /\ encOut.vec[12] = Whole(0)

\* FAF rounds (ties to even) to a whole number in 0..4: FAF <= 4.5.
FafRoundsInto0To4(v) == v.t = "num" /\ 2 * v.n <= 9 * Scale

\* C16: for every FAF whose rounded value lies in 0..4, ativ_fisica_bin is
\* the ordinal map of the rounded value: 0 when it is 0 or 1 (FAF < 1.5, and
\* 1.5 rounds to 2), 1 when it is 2, 3 or 4.
C16_ActivityBinAfterRounding ==
    (Encoded /\ FafRoundsInto0To4(Get(obs, "FAF"))) =>
        encOut.vec[9] = IF 2 * Get(obs, "FAF").n >= 3 * Scale THEN Whole(1) ELSE Whole(0)

\* C16 witness: a FAF that is no whole number gave the bin 1.
C16_Witness ==
    /\ Encoded
    /\ FafRoundsInto0To4(Get(obs, "FAF"))
    /\ ~IsWhole(Get(obs, "FAF"))
    /\ encOut.vec[9] = Whole(1)

SameOutcome(a, b) == a.err = b.err /\ a.vec = b.vec /\ a.missing = b.missing

IsKeyOf(v, table) == v.t = "str" /\ v.s \in DOMAIN table

\* C19: every categorical value the Prever form submits is a key of the
\* encoder's table for its field, and the submission encodes to a vector
\* with no missing element.
C19_FormValuesAreKeys ==
    encOut.called =>
        /\ \A k \in {"family_history", "FAVC", "SMOKE", "SCC"} :
              IsKeyOf(Get(obs, k), _YES_NO_MAP)
        /\ IsKeyOf(Get(obs, "CAEC"), _FREQ_MAP)
        /\ IsKeyOf(Get(obs, "CALC"), _FREQ_MAP)
        /\ IsKeyOf(Get(obs, "MTRANS"), _TRANSP_MAP)
        /\ encOut.err = "none"
        /\ ~HasNaN(encOut.vec)

\* ------------------------------------------------------ wrapper properties
Returned == predOut.called /\ predOut.err = "none"

BadFrequency(input) ==
    \E k \in {"CAEC", "CALC"} : Get(input, k) # Absent /\ Get(input, k) \notin FreqValues

\* C4: when CAEC or CALC carries a value outside "no", "Sometimes",
\* "Frequently", "Always", predict_from_input fails with an error: the
\* classifier is never called with a vector holding NaN.
C4_BadFrequencyFails ==
    (predOut.called /\ BadFrequency(obs)) =>
        /\ predOut.err # "none"
        /\ ~(predOut.clfCalled /\ HasNaN(predOut.clfInput))

\* C10: the result has a probability field exactly when the classifier
\* exposes predict_proba; without it no error is raised and the result holds
\* only the message; with it the probability is the second element of the
\* classifier's pair, as a percentage with two decimals.
C10_ProbabilityOptional ==
    /\ Returned => (("probabilidade" \in predOut.keys) <=> clf.hasProba)
    /\ (Returned /\ ~clf.hasProba) => predOut.keys = {"mensagem"}
    /\ (/\ predOut.called
        /\ ~clf.hasProba
        /\ preprocess_input(obs).err = "none"
        /\ (clf.nanOk \/ ~HasNaN(Row(preprocess_input(obs).df)))) => predOut.err = "none"
    /\ (Returned /\ clf.hasProba) =>
        /\ predOut.probabilidade.prefix = "Probabilidade estimada: "
        /\ 10 * predOut.probabilidade.pct - answer.p \in -5..5

\* A classifier without predict_proba answered and the wrapper returned the
\* message alone.
C10_Witness ==
    /\ Returned
    /\ ~clf.hasProba
    /\ predOut.clfCalled
    /\ predOut.keys = {"mensagem"}
    /\ predOut.mensagem = MsgPositive

\* C11: the message is the positive-risk one when the classifier's label is
\* 1 and the low-probability one when it is 0, whatever the probability.
C11_MessageFollowsLabel ==
    Returned =>
        /\ answer.label = 1 => predOut.mensagem = MsgPositive
        /\ answer.label = 0 => predOut.mensagem = MsgNegative

\* C11 witness: label 0 with a class-1 probability of 0.6 or more gave the
\* low-probability message.
C11_Witness ==
    /\ Returned
    /\ clf.hasProba
    /\ answer.label = 0
    /\ answer.p >= 60000
    /\ predOut.mensagem = MsgNegative

\* ------------------------------------------------------ the risk tiers
\* C9: the tier is "Baixo" when p < 30, "Moderado" when 30 <= p < 60 and
\* "Alto" when p >= 60; 29.999 gives Baixo, 30.0 Moderado, 59.999 Moderado
\* and 60.0 Alto.
C9_TierBoundaries ==
    tierOut.called =>
        /\ probIn < 30000 => tierOut.risco = "Baixo"
        /\ (30000 <= probIn /\ probIn < 60000) => tierOut.risco = "Moderado"
        /\ probIn >= 60000 => tierOut.risco = "Alto"
        /\ probIn = 29999 => tierOut.risco = "Baixo"
        /\ probIn = 30000 => tierOut.risco = "Moderado"
        /\ probIn = 59999 => tierOut.risco = "Moderado"
        /\ probIn = 60000 => tierOut.risco = "Alto"

\* The probability 30.0 has been classified, as Moderado.
C9_Witness == tierOut.called /\ probIn = 30000 /\ tierOut.risco = "Moderado"

\* ------------------------------------------------ application properties
PipelineErrors == {"KeyError", "TypeError", "ValueError", "ClassifierError", "ModelUnavailable"}

\* C6: a run of a submitted form in which the prediction pipeline raised
\* leaves the rows of the history store as they were and renders no result,
\* metric, chart, recommendation, saved notice or PDF link.
C6_NoRecordOnError ==
    [][(last'.submitted /\ last'.err \in PipelineErrors)
          => /\ db'.rows = db.rows
             /\ last'.wrote = 0
             /\ last'.shown \cap (ResultElements \cup {"saved_info", "pdf"}) = {}]_vars

\* C6 witness: a submission ended with the classifier's error while the
\* store already held a record.
C6_Witness ==
    /\ last.submitted
    /\ last.err = "ClassifierError"
    /\ Len(db.rows) >= 1

IdsIncrease == \A i, j \in 1..Len(db.rows) : i < j => db.rows[i].id < db.rows[j].id

TimestampsNonDecreasing ==
    \A i, j \in 1..Len(db.rows) : i < j => db.rows[i].timestamp <= db.rows[j].timestamp

C8_RecordsKept ==
    [][\A i \in 1..Len(db.rows) : i <= Len(db'.rows) /\ db'.rows[i] = db.rows[i]]_vars

\* C8 witness: the history page listed the records, none of them gone, after
\* two submissions were saved.
C8_Witness ==
    /\ Len(db.rows) = 2
    /\ last.page = "Historico"
    /\ "csv" \in last.shown

NothingProduced ==
    /\ last.wrote = 0
    /\ last.shown \cap (ResultElements \cup {"saved_info", "pdf"}) = {}

\* C12 as stated: once a load of the model has failed in the multi-page
\* app (load_model raised, or load_ml_model returned None), no later run of
\* that app produces a result, a record or a PDF.
C12_LoadFailureTerminal ==
    (loadFailed \/ mlCache = "none") => (last.app = "app.py" => NothingProduced)

\* C12: once load_ml_model has returned None the value stays (no retry), the
\* Prever page never holds the form again, and no run of the multi-page app
\* produces a result, a record or a PDF.
C12_CachedFailureTerminal ==
    [][mlCache = "none" =>
          /\ mlCache' = "none"
          /\ ~formShown'.app
          /\ last'.app = "app.py" =>
                /\ last'.wrote = 0
                /\ "form" \notin last'.shown
                /\ last'.shown \cap (ResultElements \cup {"saved_info", "pdf"}) = {}]_vars

\* C12 witness: the Prever page shows the loader's error while the store
\* holds a record written by the other application.
C12_Witness ==
    /\ mlCache = "none"
    /\ last.app = "app.py"
    /\ last.page = "Prever"
    /\ "model_error" \in last.shown
    /\ Len(db.rows) >= 1

\* C20: every record of the store was written for a user authenticated as
\* medico (neither form has a widget by which a patient asks for the record
\* to be saved).
C20_SavedOnlyIfAuthenticated ==
    \A i \in 1..Len(db.rows) : db.rows[i].user_type = "medico"

\* C21: the risk tier the Prever page derives from the wrapper's probability
\* text (two decimals of a percentage, read back by the regular expression)
\* is the tier of 100*p thresholded at 30 and 60.
C21_TierOfTextIsTierOfProbability ==
    (predOut.called /\ predOut.err = "none" /\ "probabilidade" \in predOut.keys) =>
        Risco(ParseProb(predOut.probabilidade)) = Risco(answer.p)

\* The tier a colour of the chart / of the badge stands for (green, amber or
\* orange, red).
TierOfChartColor(c) ==
    CASE c = "#2ECC71" -> "Baixo" [] c = "#F1C40F" -> "Moderado" [] c = "#E74C3C" -> "Alto"
      [] OTHER -> "none"

TierOfBadgeColor(c) ==
    CASE c = <<76, 175, 80>> -> "Baixo" [] c = <<255, 159, 67>> -> "Moderado"
      [] c = <<220, 53, 69>> -> "Alto" [] OTHER -> "none"

\* C22: the risk label of the Prever page, the colour of the chart's bar and
\* the colour of the PDF's badge put a probability in the same tier, and that
\* tier has 30 and 60 as the first values of the higher tier.
C22_SitesAgree ==
    tierOut.called =>
        /\ TierOfChartColor(tierOut.chart) = tierOut.risco
        /\ TierOfBadgeColor(tierOut.badge) = tierOut.risco
        /\ tierOut.risco = "Baixo" <=> probIn < 30000
        /\ tierOut.risco = "Alto" <=> probIn >= 60000

\* C22 witness: at exactly 60 the label is Alto, the bar and the badge red.
C22_Witness ==
    /\ tierOut.called
    /\ probIn = 60000
    /\ tierOut.risco = "Alto"
    /\ tierOut.chart = "#E74C3C"
    /\ tierOut.badge = <<220, 53, 69>>

\* w is the whole number nearest to the fixed-point number n, the even one
\* of the two when n lies halfway between them.
IsNearestWholeTiesEven(w, n) ==
    /\ w % Scale = 0
    /\ 2 * (IF w >= n THEN w - n ELSE n - w) <= Scale
    /\ (2 * (IF w >= n THEN w - n ELSE n - w) = Scale) => (w \div Scale) % 2 = 0

RoundedFields == <<"FCVC", "NCP", "CH2O", "TUE">>

\* Position in the vector of the feature a rounded field becomes.
RoundedIndex(k) == CASE k = "FCVC" -> 3 [] k = "NCP" -> 4 [] k = "CH2O" -> 7 [] k = "TUE" -> 10

\* C23: in every vector the encoder returns, the elements of FCVC, NCP, CH2O
\* and TUE are whole numbers, the nearest to the input with ties going to
\* the even one, and the element derived from FAF is the bin of FAF rounded
\* the same way (missing when that whole number is above 4).
C23_RoundedToNearestEven ==
    Encoded =>
        /\ \A k \in Range(RoundedFields) :
              Get(obs, k).t = "num" =>
                  /\ encOut.vec[RoundedIndex(k)].t = "num"
                  /\ IsNearestWholeTiesEven(encOut.vec[RoundedIndex(k)].n, Get(obs, k).n)
        /\ Get(obs, "FAF").t = "num" =>
              \E w \in {i * Scale : i \in 0..(MaxNumeric + 1)} :
                  /\ IsNearestWholeTiesEven(w, Get(obs, "FAF").n)
                  /\ encOut.vec[9] = IF w \div Scale \in DOMAIN _ATIV_MAP
                                     THEN Whole(_ATIV_MAP[w \div Scale]) ELSE NaN

\* C23 witness: a CH2O halfway between 2 and 3 was encoded as 2.
C23_Witness ==
    /\ Encoded
    /\ 2 * Get(obs, "CH2O").n = 5 * Scale
    /\ encOut.vec[7] = Whole(2)

\* C24: a survey code is renamed only when its internal name is not already
\* a key of the input, so after the rename step of a call no internal name
\* names two columns, also when the input carries both forms of a field.
C24_OneValuePerInternalName ==
    encOut.called =>
        LET df == Rename(DataFrame(obs), _COLUMN_RENAME)
        IN  /\ ~HasDuplicateColumn(df)
            /\ \A i \in DOMAIN obs :
                  (/\ obs[i].k \in DOMAIN _COLUMN_RENAME
                   /\ Get(obs, _COLUMN_RENAME[obs[i].k]) # Absent) => df[i].name = obs[i].k

\* The number of font sizes from int(size at entry) - 1 down to min_font_size.
ReducedSizes ==
    IF smc.entry.font \div Scale > smc.min_font_size
    THEN (smc.entry.font \div Scale) - smc.min_font_size ELSE 0

\* What the i-th multi_cell call of a call of _safe_multi_cell has to be.
ExpectedAttempt(i, a) ==
    IF i = 1
    THEN a.txt = smc.txt /\ a.size = smc.entry.font /\ a.l = smc.entry.l /\ a.r = smc.entry.r
    ELSE IF i <= ReducedSizes + 1
    THEN /\ a.txt = smc.txt
         /\ a.size = ((smc.entry.font \div Scale) - (i - 1)) * Scale
         /\ a.size >= smc.min_font_size * Scale
         /\ a.l = smc.entry.l /\ a.r = smc.entry.r
    ELSE IF i = ReducedSizes + 2
    THEN a.txt = smc.txt /\ a.l = 2 /\ a.r = 2
    ELSE a.txt = "-" /\ a.size = smc.min_font_size * Scale

\* C25: the multi_cell calls of _safe_multi_cell come in the order current
\* size, each whole size from int(current) - 1 down to min_font_size, margins
\* of 2, then "-" at min_font_size; every call before the last one raised,
\* the function returns only after a call that succeeded or after the last
\* of them, and at most one call wrote.
C25_AttemptOrder ==
    LET a == smc.attempts
    IN  /\ Len(a) <= ReducedSizes + 3
        /\ \A i \in DOMAIN a : ExpectedAttempt(i, a[i])
        /\ \A i \in DOMAIN a : i < Len(a) => ~a[i].ok
        /\ smc.pc = "returned" => (a[Len(a)].ok \/ Len(a) = ReducedSizes + 3)
        /\ Cardinality({i \in DOMAIN a : a[i].ok}) <= 1

\* C25 witness: from 8.5 points the text failed at 8.5, 7 and 6, was written
\* under margins of 2, and no dash followed.
C25_Witness ==
    /\ smc.pc = "returned"
    /\ smc.entry.font = 8 * Scale + Scale \div 2
    /\ smc.min_font_size = 6
    /\ Len(smc.attempts) = 4
    /\ smc.attempts[4].ok
    /\ smc.attempts[4].txt = "Nome: Ana"
    /\ smc.attempts[4].l = 2

\* C26: whatever multi_cell calls raise, a call of _safe_multi_cell comes to
\* its return and no exception leaves it.
C26_AlwaysReturns == [](smc.pc # "raised") /\ <>(smc.pc = "returned")

\* C26 witness: every multi_cell call raised, the "-" included, and the
\* function returned.
C26_Witness ==
    /\ smc.pc = "returned"
    /\ Len(smc.attempts) >= 4
    /\ \A i \in DOMAIN smc.attempts : ~smc.attempts[i].ok
    /\ smc.attempts[Len(smc.attempts)].txt = "-"

\* C27: when _safe_multi_cell has returned, the left and right margins of
\* the PDF are the ones it was entered with.
C27_MarginsRestored ==
    smc.pc = "returned" => (smc.l_margin = smc.entry.l /\ smc.r_margin = smc.entry.r)

\* C28: in every run of the multi-page app the records table exists by the
\* time a page selects from it or inserts into it, so no run of that app
\* ends with sqlite's "no such table" error.
C28_TableCreatedBeforeUse ==
    (last.app = "app.py" /\ last.page \in {"Historico", "Prever"}) =>
        last.err # "OperationalError"

\* C29: auth is true exactly when user_type is a type of CREDENTIALS and
\* user_name is that type's user name; when auth is false both are None;
\* and auth is true only after an 'Entrar' whose user name and password are
\* those of the selected type.
C29_AuthConsistent ==
    /\ session.auth = "True" <=>
          \E t \in {"medico", "paciente"} :
              session.user_type = t /\ session.user_name = CREDENTIALS[t].user
    /\ session.auth = "False" => (session.user_type = "None" /\ session.user_name = "None")
    /\ session.auth = "True" =>
          /\ login.button = "Entrar"
          /\ login.user = CREDENTIALS[login.tipo].user
          /\ login.pwd = CREDENTIALS[login.tipo].pass
          /\ session.user_type = login.tipo
    /\ (login.button = "Entrar" /\ session.auth # "True") =>
          (login.user # CREDENTIALS[login.tipo].user \/ login.pwd # CREDENTIALS[login.tipo].pass)

\* C29 witness: 'Entrar' with the user name of paciente and the password of
\* medico left the session logged out.
C29_Witness ==
    /\ session.auth = "False"
    /\ login = [button |-> "Entrar", user |-> "paciente", pwd |-> "med123", tipo |-> "paciente"]
    /\ session.user_type = "None"
    /\ last.app = "streamlit_app_full.py"

====
